---- MODULE Spec2Model ----
(***************************************************************************)
(* Model of the voice-activity-detection pipeline of @solace/client-sdk:   *)
(* class VADManager (vad.ts), its async generator recordAndDetectVoice,    *)
(* stopRecording and the state accessor.                                   *)
(*                                                                         *)
(* Every `await` and every `yield` of the source is a position of the      *)
(* generator (pc) or of a stopRecording call (stopStatus); the code        *)
(* between two suspension points runs to completion, as JavaScript does,   *)
(* and is one action.  The host environment (dynamic import, getUserMedia, *)
(* AudioContext, the analyser, the classifier) is a nondeterministic       *)
(* choice over the outcomes it can produce.                                *)
(***************************************************************************)
EXTENDS Integers, Sequences, FiniteSets, TLC

\* ---------------------------------------------------------------- bounds
MaxFrames == 3
MaxStopCalls == 2
MaxClock == 3
MaxSamples == 600
MaxInvocations == 3
MaxLen == 2
MaxKeys == 4
MaxBins == 3
MaxSaves == 5
MaxProcessed == 2
MaxCalls == 2

\* ------------------------------------------------------------- constants
Null == 0
NoFrame == 0
DefaultAggressiveness == 1
DefaultFrameDuration == 30
DefaultSampleRate == 16000

FftSize == 2048
TagLength == 16
IvLength == 12
PcmScale == 32767
ByteMid == 128
KeptTranscripts == 3

Gens == {1, 2}
StopCalls == 1..MaxStopCalls

\* VADConfig (types.ts) and the default of the VADManager constructor.
DefaultConfig ==
  [aggressiveness |-> DefaultAggressiveness,
   frameDuration |-> DefaultFrameDuration,
   sampleRate |-> DefaultSampleRate]

\* The configurations a caller hands to the constructor: the default and
\* one with each field outside the documented surface.
Configs ==
  {DefaultConfig,
   [DefaultConfig EXCEPT !.aggressiveness = 7],
   [DefaultConfig EXCEPT !.frameDuration = 25],
   [DefaultConfig EXCEPT !.sampleRate = 44100]}

\* The configuration surface of the design.
ValidConfig(c) ==
  /\ c.aggressiveness \in {0, 1, 2, 3}
  /\ c.frameDuration \in {10, 20, 30}
  /\ c.sampleRate \in {8000, 16000, 32000, 48000}

\* Outcomes of reading and classifying one frame.
FrameOutcomes == {"ok", "readThrows", "classifierThrows"}

VARIABLES
  constructed,    \* a VADManager exists
  config,         \* VADManager.config
  mediaStream,    \* VADManager.mediaStream: Null or the id of a MediaStream
  audioContext,   \* VADManager.audioContext: Null or the id of an AudioContext
  analyser,       \* VADManager.analyser is non-null
  vad,            \* VADManager.vad is non-null
  isRecording,    \* VADManager.isRecording
  trackStops,     \* per MediaStream: number of track.stop() calls on its track
  ctxCloses,      \* per AudioContext: number of close() calls
  runs,           \* number of recordAndDetectVoice() generators the caller makes
  pc,             \* per generator: position in recordAndDetectVoice
  completion,     \* per generator: completion pending while finally runs
  result,         \* per generator: how the sequence ended
  pendingFrame,   \* per generator: value processAudioFrame resolved with
  frameLog,       \* per generator: outcome of each frame read so far
  received,       \* per generator: frames the consumer was handed, in order
  pulling,        \* per generator: a next() of the consumer is unresolved
  stopStatus,     \* per external stopRecording() call: its position
  acqFailure,     \* per generator: the acquisition step that failed
  everRecording,  \* isRecording has been true at some point
  streamObtained, \* per generator: getUserMedia gave it a MediaStream
  ctxCreated,     \* per generator: it created an AudioContext
  stopAt,         \* per generator: its positions at which a stop() began
  stopDone,       \* per generator: a stop() completed after its first pull
  lastOp,         \* the operation that made the last step
  now,            \* Date.now(): the host clock, in ms
  startTime,      \* VADManager.startTime
  loopStart,      \* per generator: the local `startTime` of its body
  frameTs,        \* per generator: Date.now() - startTime of each frame read
  delivered,      \* samples the microphone has delivered into the stream
  handler,        \* the decrypt Lambda: its invocation in progress
  sdk,            \* APIManager.downloadAndDecrypt: the call in progress
  crypto,         \* a caller of CryptoManager: its data, keys and results
  pcm,            \* convertToPCM: its frequency data and its result
  memory,         \* localStorage['solace_transcripts'] and the texts saved
  demo,           \* the SDK demo: its Stop & Upload handler
  app,            \* the voice companion: handleAudioProcessing and its state
  solace          \* a SolaceClientSDK: its config, managers and calls

fields == <<mediaStream, audioContext, analyser, vad, isRecording, trackStops, ctxCloses>>
genvars == <<pc, completion, result, pendingFrame, frameLog, received, pulling>>
histvars == <<acqFailure, everRecording, streamObtained, ctxCreated, stopAt, stopDone>>
extvars == <<sdk, crypto, pcm, memory, demo, app, solace>>
hostvars == <<now, startTime, delivered, handler, extvars>>
vars == <<constructed, config, fields, runs, genvars, stopStatus, histvars, lastOp,
          loopStart, frameTs, hostvars>>

\* The fields of the manager and of the host objects it holds, as a record
\* (the code of one action reads and writes them in sequence).
Cur ==
  [mediaStream |-> mediaStream, audioContext |-> audioContext,
   analyser |-> analyser, vad |-> vad, isRecording |-> isRecording,
   trackStops |-> trackStops, ctxCloses |-> ctxCloses, status |-> "none"]

Commit(F) ==
  /\ mediaStream' = F.mediaStream
  /\ audioContext' = F.audioContext
  /\ analyser' = F.analyser
  /\ vad' = F.vad
  /\ isRecording' = F.isRecording
  /\ trackStops' = F.trackStops
  /\ ctxCloses' = F.ctxCloses

\* A promise reaction (the continuation of `await processAudioFrame()`) is
\* queued: host tasks (timers, device and import completions, the end of
\* AudioContext.close()) run only when no job is queued.
NoJobQueued == \A g \in Gens : pc[g] # "awaitFrame"

Acquiring(g) == pc[g] \in {"awaitImport", "awaitGUM"}

\* ------------------------------------------------------ stopRecording()
\* mediaStream.getTracks().forEach(track => track.stop())
StopTracksSkipped(stops, ms) == stops
StopTracks(stops, ms) == [stops EXCEPT ![ms] = @ + 1]

\* this.audioContext = null, after the awaited close()
ClearedContextKept(ac) == ac
ClearedContext(ac) == Null

\* stopRecording up to its first suspension.  `rejects` is the host's answer
\* to close() on a context that is already closing or closed.
StopRecordingSync(F, rejects) ==
  LET F1 == [F EXCEPT !.isRecording = FALSE]
      F2 == IF F1.mediaStream # Null
              THEN [F1 EXCEPT !.trackStops = StopTracks(@, F1.mediaStream),
                              !.mediaStream = Null]
              ELSE F1
      ac == F2.audioContext
  IN IF ac # Null
       THEN [F2 EXCEPT !.ctxCloses = [@ EXCEPT ![ac] = @ + 1],
                       !.status = IF F2.ctxCloses[ac] > 0 /\ rejects
                                    THEN "raised" ELSE "closing"]
       ELSE [F2 EXCEPT !.analyser = FALSE, !.vad = FALSE, !.status = "done"]

\* stopRecording after `await this.audioContext.close()` resolved.
StopRecordingResume(F) ==
  [F EXCEPT !.audioContext = ClearedContext(@), !.analyser = FALSE,
            !.vad = FALSE, !.status = "done"]

NoEvent == [httpMethod |-> "", body |-> "", blobKey |-> ""]

\* The request downloadAndDecrypt sends for a blob key: POST {blobKey}.
DecryptRequest(k) ==
  [httpMethod |-> "POST", body |-> "objectWithBlobKey", blobKey |-> k]

\* No downloadAndDecrypt call has been made.
DownloadIdle ==
  [pc |-> "idle", calls |-> 0, request |-> NoEvent, answered |-> FALSE,
   outcome |-> "none", value |-> ""]

\* ------------------------------------------------------ CryptoManager
\* Strings are sequences of UTF-16 code units: "a", e-acute, the byte order
\* mark U+FEFF, and the two halves of the surrogate pair of U+1F600.
CodeUnits == {97, 233, 65279, 55357, 56832}

Strings == UNION {[1..n -> CodeUnits] : n \in 0..MaxLen}

IsHigh(u) == u >= 55296 /\ u <= 56319

IsLow(u) == u >= 56320 /\ u <= 57343

\* The UTF-8 bytes of one code point.
EncodeCodePoint(cp) ==
  IF cp < 128 THEN <<cp>>
  ELSE IF cp < 2048 THEN <<192 + cp \div 64, 128 + (cp % 64)>>
  ELSE IF cp < 65536
    THEN <<224 + cp \div 4096, 128 + ((cp \div 64) % 64), 128 + (cp % 64)>>
  ELSE <<240 + cp \div 262144, 128 + ((cp \div 4096) % 64),
         128 + ((cp \div 64) % 64), 128 + (cp % 64)>>

\* new TextEncoder().encode(data): a surrogate pair is one code point, a
\* lone surrogate is replaced by U+FFFD.
RECURSIVE Utf8Encode(_)
Utf8Encode(str) ==
  IF str = <<>> THEN <<>>
  ELSE IF IsHigh(str[1]) /\ Len(str) >= 2 /\ IsLow(str[2])
    THEN EncodeCodePoint(65536 + (str[1] - 55296) * 1024 + (str[2] - 56320))
           \o Utf8Encode(SubSeq(str, 3, Len(str)))
  ELSE IF IsHigh(str[1]) \/ IsLow(str[1])
    THEN EncodeCodePoint(65533) \o Utf8Encode(Tail(str))
  ELSE EncodeCodePoint(str[1]) \o Utf8Encode(Tail(str))

\* The code units of one code point.
CodeUnitsOf(cp) ==
  IF cp < 65536 THEN <<cp>>
  ELSE <<55296 + (cp - 65536) \div 1024, 56320 + ((cp - 65536) % 1024)>>

RECURSIVE DecodeBytes(_)
DecodeBytes(bytes) ==
  IF bytes = <<>> THEN <<>>
  ELSE LET b == bytes[1]
           n == Len(bytes)
       IN IF b < 128 THEN <<b>> \o DecodeBytes(Tail(bytes))
          ELSE IF b >= 192 /\ b < 224 /\ n >= 2
            THEN CodeUnitsOf((b - 192) * 64 + (bytes[2] - 128))
                   \o DecodeBytes(SubSeq(bytes, 3, n))
          ELSE IF b >= 224 /\ b < 240 /\ n >= 3
            THEN CodeUnitsOf((b - 224) * 4096 + (bytes[2] - 128) * 64
                             + (bytes[3] - 128))
                   \o DecodeBytes(SubSeq(bytes, 4, n))
          ELSE IF b >= 240 /\ b < 248 /\ n >= 4
            THEN CodeUnitsOf((b - 240) * 262144 + (bytes[2] - 128) * 4096
                             + (bytes[3] - 128) * 64 + (bytes[4] - 128))
                   \o DecodeBytes(SubSeq(bytes, 5, n))
          ELSE <<65533>> \o DecodeBytes(Tail(bytes))

\* new TextDecoder().decode(decrypted): with the default options a leading
\* byte order mark EF BB BF is not part of the result.
Utf8Decode(bytes) ==
  IF Len(bytes) >= 3 /\ SubSeq(bytes, 1, 3) = <<239, 187, 191>>
    THEN DecodeBytes(SubSeq(bytes, 4, Len(bytes)))
    ELSE DecodeBytes(bytes)

\* arrayBufferToBase64: btoa of the bytes, as a sequence of base64 digits
\* 0..63 with 64 for the padding character.
RECURSIVE arrayBufferToBase64(_)
arrayBufferToBase64(bytes) ==
  LET n == Len(bytes)
  IN IF n = 0 THEN <<>>
     ELSE IF n = 1
       THEN <<bytes[1] \div 4, (bytes[1] % 4) * 16, 64, 64>>
     ELSE IF n = 2
       THEN <<bytes[1] \div 4, (bytes[1] % 4) * 16 + bytes[2] \div 16,
              (bytes[2] % 16) * 4, 64>>
     ELSE <<bytes[1] \div 4, (bytes[1] % 4) * 16 + bytes[2] \div 16,
            (bytes[2] % 16) * 4 + bytes[3] \div 64, bytes[3] % 64>>
            \o arrayBufferToBase64(SubSeq(bytes, 4, n))

\* base64ToArrayBuffer: the bytes of atob of the digits.
RECURSIVE base64ToArrayBuffer(_)
base64ToArrayBuffer(b64) ==
  IF Len(b64) < 4 THEN <<>>
  ELSE LET c == b64
           rest == base64ToArrayBuffer(SubSeq(b64, 5, Len(b64)))
       IN IF c[3] = 64 THEN <<c[1] * 4 + c[2] \div 16>>
          ELSE IF c[4] = 64
            THEN <<c[1] * 4 + c[2] \div 16, (c[2] % 16) * 16 + c[3] \div 4>>
          ELSE <<c[1] * 4 + c[2] \div 16, (c[2] % 16) * 16 + c[3] \div 4,
                 (c[3] % 4) * 64 + c[4]>> \o rest

RECURSIVE SumSeq(_)
SumSeq(q) == IF q = <<>> THEN 0 ELSE q[1] + SumSeq(Tail(q))

\* AES-GCM of the host: a keystream that depends on key, IV and position,
\* and a 16-byte tag over key, IV and ciphertext.
Pad(k, iv, i) == (k * 31 + SumSeq(iv) + i * 7) % 256

GcmTag(k, iv, ct) ==
  [j \in 1..TagLength |->
     (k * 17 + SumSeq(iv) + SumSeq(ct) * 3 + Len(ct) + j) % 256]

\* crypto.subtle.encrypt: the ciphertext with the tag appended.
SubtleEncrypt(k, iv, pt) ==
  LET ct == [i \in 1..Len(pt) |-> (pt[i] + Pad(k, iv, i)) % 256]
  IN ct \o GcmTag(k, iv, ct)

\* crypto.subtle.decrypt: rejects unless the tag is that of key, IV and
\* ciphertext.
SubtleDecrypt(k, iv, data) ==
  IF Len(data) < TagLength THEN [ok |-> FALSE, bytes |-> <<>>]
  ELSE LET ct == SubSeq(data, 1, Len(data) - TagLength)
           tag == SubSeq(data, Len(data) - TagLength + 1, Len(data))
       IN IF tag # GcmTag(k, iv, ct) THEN [ok |-> FALSE, bytes |-> <<>>]
          ELSE [ok |-> TRUE,
                bytes |-> [i \in 1..Len(ct) |->
                             (ct[i] + 256 - Pad(k, iv, i)) % 256]]

\* The body of encryptBlob from the IV on, for a given key: encrypt, split
\* off the last 16 bytes as tag, base64-encode the three parts.
EncryptUnder(d, k, iv) ==
  LET encrypted == SubtleEncrypt(k, iv, Utf8Encode(d))
      ciphertextLength == Len(encrypted) - TagLength
  IN [iv |-> arrayBufferToBase64(iv),
      ciphertext |-> arrayBufferToBase64(SubSeq(encrypted, 1, ciphertextLength)),
      tag |-> arrayBufferToBase64(
                SubSeq(encrypted, ciphertextLength + 1, Len(encrypted)))]

\* new Uint8Array(ciphertext.byteLength + tag.byteLength) filled with the
\* ciphertext and then the tag.
Combined(ciphertext, tag) == ciphertext \o tag

\* decryptBlob(params, key): the text, or DECRYPTION_ERROR.
decryptBlob(params, k) ==
  LET iv == base64ToArrayBuffer(params.iv)
      ciphertext == base64ToArrayBuffer(params.ciphertext)
      tag == base64ToArrayBuffer(params.tag)
      decrypted == SubtleDecrypt(k, iv, Combined(ciphertext, tag))
  IN IF decrypted.ok THEN [ok |-> TRUE, text |-> Utf8Decode(decrypted.bytes)]
     ELSE [ok |-> FALSE, text |-> <<>>]

\* crypto.getRandomValues(new Uint8Array(IV_LENGTH)): two of its values.
Ivs == {[i \in 1..IvLength |-> i], [i \in 1..IvLength |-> (i * 37) % 256]}

\* The keys the caller holds at the start.
CallerKeys == {1, 2}

NoBlob == [iv |-> <<>>, ciphertext |-> <<>>, tag |-> <<>>]

\* A caller holding key k who is about to encrypt d; iv is the next IV the
\* host draws and nextKey the next key crypto.subtle.generateKey makes.
CryptoReady(d, k, iv) ==
  [pc |-> "ready", d |-> d, k |-> k, iv |-> iv, callerKeys |-> {k},
   nextKey |-> 3, usedKey |-> 0, viaPublic |-> FALSE, blob |-> NoBlob,
   decKey |-> 0, out |-> [ok |-> FALSE, text |-> <<>>]]

\* ------------------------------------------------------- convertToPCM
\* Math.round(num / den) for den > 0: the nearest integer, halves upwards.
MathRound(num, den) == (2 * num + den) \div (2 * den)

\* Storing a number in an Int16Array: it wraps into -32768..32767.
ToInt16(v) == ((v + 32768) % 65536) - 32768

\* frequencyData[i] - 128
CentreMissing(b) == b

Centre(b) == b - ByteMid

\* pcmData[i] = Math.round(((frequencyData[i] - 128) / 128) * 32767)
PcmSample(b) == ToInt16(MathRound(Centre(b) * PcmScale, ByteMid))

convertToPCM(frequencyData) ==
  [i \in 1..Len(frequencyData) |-> PcmSample(frequencyData[i])]

\* Frequency data of n bins: a ramp of bytes from b on.
Ramp(b, n, step) == [i \in 1..n |-> (b + (i - 1) * step) % 256]

PcmReady(data) == [pc |-> "ready", input |-> data, output |-> <<>>]

\* ----------------------------------------------------------- useMemory
Texts == {"t1", "t2", "t3"}

\* localStorage.getItem('solace_transcripts') is null; nothing saved yet.
MemoryEmpty == [present |-> FALSE, items |-> <<>>, saved |-> <<>>, op |-> "none"]

\* array.slice(-n): the last n elements, all of them when there are fewer.
SliceFirst(q, n) == SubSeq(q, 1, IF Len(q) < n THEN Len(q) ELSE n)

SliceLast(q, n) == SubSeq(q, (IF Len(q) < n THEN 0 ELSE Len(q) - n) + 1, Len(q))

\* existing ? JSON.parse(existing) : []
StoredTranscripts(m) == IF m.present THEN m.items ELSE <<>>

\* getTranscripts(): the texts of the stored transcripts.
getTranscripts(m) ==
  [i \in 1..Len(StoredTranscripts(m)) |-> StoredTranscripts(m)[i].text]

\* saveTranscript(transcript) on the memory m; id is Date.now().
saveTranscript(m, transcript, id) ==
  [m EXCEPT !.present = TRUE,
            !.items = SliceLast(Append(StoredTranscripts(m),
                                       [text |-> transcript, id |-> id]),
                                KeptTranscripts)]

\* The SDK demo before 'Stop & Upload' is pressed.
DemoIdle ==
  [pc |-> "idle", uiRecording |-> FALSE, pressedWhileRecording |-> FALSE,
   outcome |-> "none"]

\* The voice companion before any recording was processed; runLog keeps,
\* per run of handleAudioProcessing, what transcribe returned and whether
\* saveTranscript has run.
AppIdle ==
  [pc |-> "idle", isProcessing |-> FALSE, error |-> "null", messages |-> <<>>,
   transcript |-> "null", response |-> "null", runLog |-> <<>>]

\* What the guards of SolaceClientSDK read of SDKConfig: whether apiUrl
\* and vadConfig are set.
SdkConfigs == [apiUrl : BOOLEAN, vadConfig : BOOLEAN]

\* new SolaceClientSDK(config): no manager exists, nothing was called.
NewSdk(cfg) ==
  [config |-> cfg, vadManager |-> FALSE, apiManager |-> FALSE,
   initialized |-> FALSE, initWithUrl |-> FALSE, networkCalls |-> 0,
   acquisitions |-> 0, op |-> "new", outcome |-> "none"]

\* The decrypt Lambda between invocations.
NoResponse == [statusCode |-> 0, headers |-> {}, kind |-> "none", value |-> ""]

HandlerIdle ==
  [pc |-> "idle", invocations |-> 0, event |-> NoEvent, s3Calls |-> <<>>,
   fetched |-> "", kmsCalls |-> <<>>, failure |-> "none",
   response |-> NoResponse]

InitBase ==
  /\ constructed = FALSE
  /\ config = DefaultConfig
  /\ mediaStream = Null
  /\ audioContext = Null
  /\ analyser = FALSE
  /\ vad = FALSE
  /\ isRecording = FALSE
  /\ trackStops = [g \in Gens |-> 0]
  /\ ctxCloses = [g \in Gens |-> 0]
  /\ runs = 1
  /\ pc = [g \in Gens |-> "notStarted"]
  /\ completion = [g \in Gens |-> "normal"]
  /\ result = [g \in Gens |-> "none"]
  /\ pendingFrame = [g \in Gens |-> NoFrame]
  /\ frameLog = [g \in Gens |-> <<>>]
  /\ received = [g \in Gens |-> <<>>]
  /\ pulling = [g \in Gens |-> FALSE]
  /\ stopStatus = [c \in StopCalls |-> "idle"]
  /\ acqFailure = [g \in Gens |-> "none"]
  /\ everRecording = FALSE
  /\ streamObtained = [g \in Gens |-> FALSE]
  /\ ctxCreated = [g \in Gens |-> FALSE]
  /\ stopAt = [g \in Gens |-> {}]
  /\ stopDone = [g \in Gens |-> FALSE]
  /\ lastOp = "init"
  /\ now = 1
  /\ startTime = 0
  /\ loopStart = [g \in Gens |-> 0]
  /\ frameTs = [g \in Gens |-> <<>>]
  /\ delivered = 0
  /\ handler = HandlerIdle
  /\ sdk = DownloadIdle

Init ==
  /\ InitBase
  /\ crypto = CryptoReady(<<>>, 1, [i \in 1..IvLength |-> i])
  /\ pcm = PcmReady(<<>>)
  /\ memory = MemoryEmpty
  /\ demo = DemoIdle
  /\ app = AppIdle
  /\ solace = NewSdk([apiUrl |-> FALSE, vadConfig |-> TRUE])

\* The inputs of the encryption functions, drawn from bounded sets.
InitCrypto ==
  /\ InitBase
  /\ crypto \in {CryptoReady(d, k, iv) : d \in Strings, k \in CallerKeys,
                                         iv \in Ivs}
  /\ pcm = PcmReady(<<>>)
  /\ memory = MemoryEmpty
  /\ demo = DemoIdle
  /\ app = AppIdle
  /\ solace = NewSdk([apiUrl |-> FALSE, vadConfig |-> TRUE])

\* The inputs of convertToPCM: every byte, in buffers of up to MaxBins bins.
InitPcm ==
  /\ InitBase
  /\ crypto = CryptoReady(<<>>, 1, [i \in 1..IvLength |-> i])
  /\ pcm \in {PcmReady(Ramp(b, n, step)) :
               b \in 0..255, n \in 0..MaxBins, step \in {1, 85}}
  /\ memory = MemoryEmpty
  /\ demo = DemoIdle
  /\ app = AppIdle
  /\ solace = NewSdk([apiUrl |-> FALSE, vadConfig |-> TRUE])

\* new VADManager(config): the constructor stores the configuration.
Construct(c) ==
  /\ UNCHANGED <<loopStart, frameTs, hostvars>>
  /\ ~constructed
  /\ constructed' = TRUE
  /\ config' = c
  /\ lastOp' = "construct"
  /\ UNCHANGED <<fields, runs, genvars, stopStatus, histvars>>

\* An external call of stopRecording(), from any context, up to its first
\* suspension; it completes at once when no AudioContext is held.
StopBegin(c, rejects) ==
  /\ UNCHANGED <<loopStart, frameTs, hostvars>>
  /\ constructed
  /\ stopStatus[c] = "idle"
  /\ c > 1 => stopStatus[c - 1] # "idle"
  /\ LET S == StopRecordingSync(Cur, rejects)
     IN /\ Commit(S)
        /\ stopStatus' = [stopStatus EXCEPT ![c] = S.status]
        /\ stopDone' = [g \in Gens |->
             stopDone[g] \/ (S.status = "done" /\ pc[g] # "notStarted")]
        /\ lastOp' = IF S.status # "done" THEN "stopBegin"
                      ELSE IF lastOp \in {"stopCompleted", "stopRepeated"}
                             THEN "stopRepeated" ELSE "stopCompleted"
  /\ stopAt' = [g \in Gens |-> stopAt[g] \cup {pc[g]}]
  /\ UNCHANGED <<constructed, config, runs, genvars, acqFailure, everRecording,
                 streamObtained, ctxCreated>>

\* The close() an external stopRecording() awaits has resolved.
StopResume(c) ==
  /\ UNCHANGED <<loopStart, frameTs, hostvars>>
  /\ stopStatus[c] = "closing"
  /\ NoJobQueued
  /\ Commit(StopRecordingResume(Cur))
  /\ stopStatus' = [stopStatus EXCEPT ![c] = "done"]
  /\ stopDone' = [g \in Gens |-> stopDone[g] \/ pc[g] # "notStarted"]
  /\ lastOp' = "stopCompleted"
  /\ UNCHANGED <<constructed, config, runs, genvars, acqFailure, everRecording,
                 streamObtained, ctxCreated, stopAt>>

\* ------------------------------------------------ recordAndDetectVoice()
\* What the consumer's pull settles with once the finally block is through.
ResultOf(compl) == IF compl = "throw" THEN "SolaceSDKError" ELSE "done"

\* catch (rethrow as RECORDING_ERROR) and finally { await stopRecording() }
\* entered with the fields as F and the completion compl.
Finish(g, F, compl, rejects) ==
  LET S == StopRecordingSync(F, rejects)
  IN /\ Commit(S)
     /\ completion' = [completion EXCEPT ![g] = compl]
     /\ pendingFrame' = [pendingFrame EXCEPT ![g] = NoFrame]
     /\ UNCHANGED <<frameLog, received, frameTs>>
     /\ IF S.status = "closing"
          THEN /\ pc' = [pc EXCEPT ![g] = "finallyClosing"]
               /\ UNCHANGED <<result, pulling>>
          ELSE /\ pc' = [pc EXCEPT ![g] = "done"]
               /\ result' = [result EXCEPT ![g] =
                    IF S.status = "raised" THEN "InvalidStateError"
                    ELSE ResultOf(compl)]
               /\ pulling' = [pulling EXCEPT ![g] = FALSE]

\* processAudioFrame's value for a frame whose read and classification had
\* the outcome o: the frame (its index k), or null from the catch block.
FrameOfUncaught(o, k) == IF o = "readThrows" THEN NoFrame ELSE k
FrameOf(o, k) == IF o = "ok" THEN k ELSE NoFrame

\* analyser.frequencyBinCount: half the FFT size, the length of dataArray.
FrequencyBinCount == FftSize \div 2

\* convertToPCM: one 16-bit sample per input byte.
PcmLength(n) == n

\* The number of samples in the frame processAudioFrame returns.
EmittedFrameSamples == PcmLength(FrequencyBinCount)

\* const timestamp = Date.now() - startTime
TimestampSwapped(t, start) == start - t
Timestamp(t, start) == t - start

\* processAudioFrame(startTime), called with the fields as F, up to the
\* await of its promise.
ProcessFrame(g, F, o) ==
  /\ Commit(F)
  /\ pc' = [pc EXCEPT ![g] = "awaitFrame"]
  /\ UNCHANGED <<completion, result, received, pulling>>
  /\ IF ~F.analyser \/ ~F.vad
       THEN /\ pendingFrame' = [pendingFrame EXCEPT ![g] = NoFrame]
            /\ UNCHANGED <<frameLog, frameTs>>
       ELSE /\ Len(frameLog[g]) < MaxFrames
            /\ frameLog' = [frameLog EXCEPT ![g] = Append(@, o)]
            /\ frameTs' = [frameTs EXCEPT ![g] =
                 Append(@, Timestamp(now, loopStart'[g]))]
            /\ pendingFrame' = [pendingFrame EXCEPT ![g] =
                 FrameOf(o, Len(frameLog[g]) + 1)]

\* while (this.isRecording) { frame = await this.processAudioFrame(..) .. }
LoopStep(g, F, o, rejects) ==
  IF F.isRecording THEN ProcessFrame(g, F, o)
  ELSE Finish(g, F, "normal", rejects)

\* The consumer's first next(): the body runs up to the import.
GenStart(g) ==
  /\ UNCHANGED <<loopStart, frameTs, hostvars>>
  /\ constructed
  /\ g <= runs
  /\ pc[g] = "notStarted"
  /\ pc' = [pc EXCEPT ![g] = "awaitImport"]
  /\ pulling' = [pulling EXCEPT ![g] = TRUE]
  /\ lastOp' = "next"
  /\ UNCHANGED <<constructed, config, fields, runs, completion, result,
                 pendingFrame, frameLog, received, stopStatus, histvars>>

\* initializeVAD after `await import('webrtcvad')`: the classifier is made
\* and getUserMedia is called, or the import or the constructor failed.
ImportResolved(g, ok, rejects) ==
  /\ UNCHANGED <<loopStart, hostvars>>
  /\ pc[g] = "awaitImport"
  /\ NoJobQueued
  /\ IF ok
       THEN /\ Commit([Cur EXCEPT !.vad = TRUE])
            /\ pc' = [pc EXCEPT ![g] = "awaitGUM"]
            /\ UNCHANGED <<completion, result, pendingFrame, frameLog,
                           received, pulling, acqFailure, frameTs>>
       ELSE /\ acqFailure' = [acqFailure EXCEPT ![g] = "initializeVAD"]
            /\ Finish(g, Cur, "throw", rejects)
  /\ lastOp' = "importResolved"
  /\ UNCHANGED <<constructed, config, runs, stopStatus, everRecording,
                 streamObtained, ctxCreated, stopAt, stopDone>>

\* Outcomes of getUserMedia and of the synchronous set-up that follows it.
AcquireOutcomes ==
  {"ok", "getUserMedia", "AudioContext", "createAnalyser",
   "createMediaStreamSource"}

\* The body after `await getUserMedia(..)`: stream, context, analyser and
\* source, isRecording = true and the first iteration of the loop.
GUMResolved(g, a, o, rejects) ==
  /\ UNCHANGED hostvars
  /\ loopStart' = [loopStart EXCEPT ![g] = IF a = "ok" THEN now ELSE @]
  /\ pc[g] = "awaitGUM"
  /\ NoJobQueued
  /\ LET F1 == [Cur EXCEPT !.mediaStream = g]
         F2 == [F1 EXCEPT !.audioContext = g]
         F3 == [F2 EXCEPT !.analyser = TRUE]
         F4 == [F3 EXCEPT !.isRecording = TRUE]
     IN IF a = "ok"
          THEN /\ LoopStep(g, F4, o, rejects)
               /\ everRecording' = TRUE
               /\ UNCHANGED acqFailure
          ELSE /\ acqFailure' = [acqFailure EXCEPT ![g] = a]
               /\ UNCHANGED everRecording
               /\ Finish(g, CASE a = "getUserMedia" -> Cur
                              [] a = "AudioContext" -> F1
                              [] a = "createAnalyser" -> F2
                              [] OTHER -> F3,
                         "throw", rejects)
  /\ streamObtained' = [streamObtained EXCEPT ![g] = a # "getUserMedia"]
  /\ ctxCreated' = [ctxCreated EXCEPT ![g] = a \notin {"getUserMedia", "AudioContext"}]
  /\ lastOp' = "getUserMediaResolved"
  /\ UNCHANGED <<constructed, config, runs, stopStatus, stopAt, stopDone>>

\* The generator resumes from `await processAudioFrame()`: it yields the
\* frame to the consumer, or goes to wait for the next frame.
FrameResume(g) ==
  /\ UNCHANGED <<loopStart, frameTs, hostvars>>
  /\ pc[g] = "awaitFrame"
  /\ IF pendingFrame[g] # NoFrame
       THEN /\ pc' = [pc EXCEPT ![g] = "yielded"]
            /\ received' = [received EXCEPT ![g] = Append(@, pendingFrame[g])]
            /\ pulling' = [pulling EXCEPT ![g] = FALSE]
       ELSE /\ pc' = [pc EXCEPT ![g] = "timer"]
            /\ UNCHANGED <<received, pulling>>
  /\ pendingFrame' = [pendingFrame EXCEPT ![g] = NoFrame]
  /\ lastOp' = "frameResume"
  /\ UNCHANGED <<constructed, config, fields, runs, completion, result,
                 frameLog, stopStatus, histvars>>

\* The consumer asks for the next frame: the generator leaves the yield
\* and starts the inter-frame timer.
ConsumerNext(g) ==
  /\ UNCHANGED <<loopStart, frameTs, hostvars>>
  /\ pc[g] = "yielded"
  /\ ~pulling[g]
  /\ pc' = [pc EXCEPT ![g] = "timer"]
  /\ pulling' = [pulling EXCEPT ![g] = TRUE]
  /\ lastOp' = "next"
  /\ UNCHANGED <<constructed, config, fields, runs, completion, result,
                 pendingFrame, frameLog, received, stopStatus, histvars>>

\* The consumer abandons the iteration (break / return()) at a yield.
ConsumerReturn(g, rejects) ==
  /\ UNCHANGED <<loopStart, hostvars>>
  /\ pc[g] = "yielded"
  /\ ~pulling[g]
  /\ Finish(g, Cur, "return", rejects)
  /\ lastOp' = "return"
  /\ UNCHANGED <<constructed, config, runs, stopStatus, histvars>>

\* return() on a generator whose body never ran: it ends without running
\* the try block.
ConsumerReturnUnstarted(g) ==
  /\ UNCHANGED <<loopStart, frameTs, hostvars>>
  /\ constructed
  /\ g <= runs
  /\ pc[g] = "notStarted"
  /\ pc' = [pc EXCEPT ![g] = "done"]
  /\ result' = [result EXCEPT ![g] = "done"]
  /\ lastOp' = "return"
  /\ UNCHANGED <<constructed, config, fields, runs, completion, pendingFrame,
                 frameLog, received, pulling, stopStatus, histvars>>

\* The inter-frame setTimeout fired: the loop condition is evaluated.
TimerFired(g, o, rejects) ==
  /\ UNCHANGED <<loopStart, hostvars>>
  /\ pc[g] = "timer"
  /\ NoJobQueued
  /\ LoopStep(g, Cur, o, rejects)
  /\ lastOp' = "timerFired"
  /\ UNCHANGED <<constructed, config, runs, stopStatus, histvars>>

\* The close() awaited by the finally block's stopRecording() resolved.
FinallyResume(g) ==
  /\ UNCHANGED <<loopStart, frameTs, hostvars>>
  /\ pc[g] = "finallyClosing"
  /\ NoJobQueued
  /\ Commit(StopRecordingResume(Cur))
  /\ pc' = [pc EXCEPT ![g] = "done"]
  /\ result' = [result EXCEPT ![g] = ResultOf(completion[g])]
  /\ pulling' = [pulling EXCEPT ![g] = FALSE]
  /\ lastOp' = "finallyResume"
  /\ UNCHANGED <<constructed, config, runs, completion, pendingFrame,
                 frameLog, received, stopStatus, histvars>>

Next ==
  \/ \E c \in Configs : Construct(c)
  \/ \E c \in StopCalls, r \in BOOLEAN : StopBegin(c, r)
  \/ \E c \in StopCalls : StopResume(c)
  \/ \E g \in Gens : GenStart(g)
  \/ \E g \in Gens, ok \in BOOLEAN, r \in BOOLEAN : ImportResolved(g, ok, r)
  \/ \E g \in Gens, a \in AcquireOutcomes, o \in FrameOutcomes, r \in BOOLEAN :
       GUMResolved(g, a, o, r)
  \/ \E g \in Gens : FrameResume(g)
  \/ \E g \in Gens : ConsumerNext(g)
  \/ \E g \in Gens, r \in BOOLEAN : ConsumerReturn(g, r)
  \/ \E g \in Gens : ConsumerReturnUnstarted(g)
  \/ \E g \in Gens, o \in FrameOutcomes, r \in BOOLEAN : TimerFired(g, o, r)
  \/ \E g \in Gens : FinallyResume(g)

Spec == Init /\ [][Next]_vars

\* The host clock advances by a millisecond; Date.now() never goes back.
\* The code reads the clock only from the start of the frame loop on, so
\* time is let pass only while a generator is in its loop, between jobs.
InLoop(g) == pc[g] \in {"yielded", "timer"}

Tick ==
  /\ now < MaxClock
  /\ \E g \in Gens : InLoop(g)
  /\ NoJobQueued
  /\ now' = now + 1
  /\ UNCHANGED <<constructed, config, fields, runs, genvars, stopStatus,
                 histvars, lastOp, loopStart, frameTs, startTime, delivered,
                 handler, extvars>>

\* One run of a manager with the default configuration and one external
\* stopRecording() call, with the passing of time.
NextClock ==
  \/ Construct(DefaultConfig)
  \/ \E r \in BOOLEAN : StopBegin(1, r)
  \/ StopResume(1)
  \/ \E g \in Gens : GenStart(g)
  \/ \E g \in Gens, ok \in BOOLEAN, r \in BOOLEAN : ImportResolved(g, ok, r)
  \/ \E g \in Gens, a \in AcquireOutcomes, o \in FrameOutcomes, r \in BOOLEAN :
       GUMResolved(g, a, o, r)
  \/ \E g \in Gens : FrameResume(g)
  \/ \E g \in Gens : ConsumerNext(g)
  \/ \E g \in Gens, r \in BOOLEAN : ConsumerReturn(g, r)
  \/ \E g \in Gens, o \in FrameOutcomes, r \in BOOLEAN : TimerFired(g, o, r)
  \/ \E g \in Gens : FinallyResume(g)
  \/ Tick

SpecClock == Init /\ [][NextClock]_vars

\* The sizes of the chunks in which the host delivers microphone samples.
ChunkSizes == {200, 280}

\* source.connect(this.analyser): while the stream is live the host feeds
\* the samples it captures, a chunk at a time, into the analyser.
DeliverChunk(n) ==
  /\ mediaStream # Null
  /\ audioContext # Null
  /\ NoJobQueued
  /\ delivered + n <= MaxSamples
  /\ delivered' = delivered + n
  /\ UNCHANGED <<constructed, config, fields, runs, genvars, stopStatus,
                 histvars, lastOp, loopStart, frameTs, now, startTime,
                 handler, extvars>>

\* One run of a manager with the default configuration and one external
\* stopRecording() call, with the host delivering samples.
NextAudio ==
  \/ Construct(DefaultConfig)
  \/ \E r \in BOOLEAN : StopBegin(1, r)
  \/ StopResume(1)
  \/ \E g \in Gens : GenStart(g)
  \/ \E g \in Gens, ok \in BOOLEAN, r \in BOOLEAN : ImportResolved(g, ok, r)
  \/ \E g \in Gens, a \in AcquireOutcomes, o \in FrameOutcomes, r \in BOOLEAN :
       GUMResolved(g, a, o, r)
  \/ \E g \in Gens : FrameResume(g)
  \/ \E g \in Gens : ConsumerNext(g)
  \/ \E g \in Gens, r \in BOOLEAN : ConsumerReturn(g, r)
  \/ \E g \in Gens, o \in FrameOutcomes, r \in BOOLEAN : TimerFired(g, o, r)
  \/ \E g \in Gens : FinallyResume(g)
  \/ \E n \in ChunkSizes : DeliverChunk(n)

SpecAudio == Init /\ [][NextAudio]_vars

\* ------------------------------------------------- the decrypt Lambda
\* The variables of the browser SDK, which the Lambda does not touch.
vadvars == <<constructed, config, fields, runs, genvars, stopStatus, histvars,
             lastOp, loopStart, frameTs, now, startTime, delivered>>

sdkvars == <<vadvars, extvars>>

\* What event.body holds: text that is not JSON, the JSON value null, or a
\* JSON object without blobKey, with an empty blobKey or with a blobKey.
BodyKinds == {"notJson", "jsonNull", "objectWithoutBlobKey",
              "objectWithEmptyBlobKey", "objectWithBlobKey"}

Keys == {"k1", "k2", "k3"}

Blobs == {"b1", "b2"}

S3Errors == {"Access Denied", "Object not found"}

KMSErrors == {"InvalidCiphertextException", "AccessDeniedException"}

\* The API Gateway proxy events; blobKey is "" when the body carries none.
Events ==
  {e \in [httpMethod : {"OPTIONS", "POST"}, body : BodyKinds,
          blobKey : Keys \cup {""}] :
     (e.body = "objectWithBlobKey") <=> (e.blobKey \in Keys)}

\* const corsHeaders = {...}
CorsHeaders == {"Access-Control-Allow-Origin", "Access-Control-Allow-Headers",
                "Access-Control-Allow-Methods"}

\* headers: { ...corsHeaders, 'Content-Type': 'application/json' }
SuccessHeadersBare == {"Content-Type"}

SuccessHeaders == CorsHeaders \cup {"Content-Type"}

Response(status, hdrs, kind, value) ==
  [statusCode |-> status, headers |-> hdrs, kind |-> kind, value |-> value]

\* catch (err) { return { statusCode: 500, ..., {error: err.message} } }
Caught(message) == Response(500, CorsHeaders, "error", message)

\* if (!blobKey)
MissingBlobKey(e) == e.blobKey = ""

\* kms.decrypt({ CiphertextBlob: encryptedBlob, ... })
CiphertextBlobStale(encryptedBlob) == "b1"

CiphertextBlob(encryptedBlob) == encryptedBlob

\* decryptResult.Plaintext.toString('utf-8'): the plaintext of a blob.
Plaintext(blob) == IF blob = "b1" THEN "p1" ELSE "p2"

Returned(h, why, resp) ==
  [h EXCEPT !.pc = "returned", !.failure = why, !.response = resp]

\* exports.handler(event), up to its return or to the await of s3.getObject.
Invoke(e) ==
  /\ handler.pc \in {"idle", "returned"}
  /\ handler.invocations < MaxInvocations
  /\ LET h == [HandlerIdle EXCEPT !.invocations = handler.invocations + 1,
                                  !.event = e]
     IN handler' =
          IF e.httpMethod = "OPTIONS"
            THEN Returned(h, "none", Response(200, CorsHeaders, "empty", ""))
          ELSE IF e.body = "notJson"
            THEN Returned(h, "parse", Caught("Unexpected token"))
          ELSE IF e.body = "jsonNull"
            THEN Returned(h, "parse", Caught("Cannot read properties of null"))
          ELSE IF MissingBlobKey(e)
            THEN Returned(h, "none",
                          Response(400, CorsHeaders, "error", "Missing blobKey"))
          ELSE [h EXCEPT !.pc = "awaitS3", !.s3Calls = <<e.blobKey>>]
  /\ UNCHANGED sdkvars

\* s3.getObject(..).promise() settles: on success the handler goes on to the
\* await of kms.decrypt, on rejection to the catch block.
S3Resolved(outcome) ==
  /\ handler.pc = "awaitS3"
  /\ handler' =
       IF outcome \in S3Errors
         THEN Returned(handler, "s3", Caught(outcome))
         ELSE [handler EXCEPT !.pc = "awaitKMS", !.fetched = outcome,
                              !.kmsCalls = <<CiphertextBlob(outcome)>>]
  /\ UNCHANGED sdkvars

\* kms.decrypt(..).promise() settles.
KMSResolved(outcome) ==
  /\ handler.pc = "awaitKMS"
  /\ handler' =
       IF outcome \in KMSErrors
         THEN Returned(handler, "kms", Caught(outcome))
         ELSE Returned(handler, "none",
                       Response(200, SuccessHeaders, "plaintext",
                                Plaintext(handler.kmsCalls[1])))
  /\ UNCHANGED sdkvars

NextLambda ==
  \/ \E e \in Events : Invoke(e)
  \/ \E outcome \in Blobs \cup S3Errors : S3Resolved(outcome)
  \/ \E outcome \in {"ok"} \cup KMSErrors : KMSResolved(outcome)

SpecLambda == Init /\ [][NextLambda]_vars

\* ------------------------------------------- APIManager.downloadAndDecrypt
\* The fields of the JSON document in a response body of the Lambda.
BodyFields(resp) ==
  IF resp.kind = "plaintext" THEN {"plaintext"}
  ELSE IF resp.kind = "error" THEN {"error"}
  ELSE {}

\* response.ok: the status is in the range 200..299.
ResponseOk(resp) == resp.statusCode >= 200 /\ resp.statusCode <= 299

\* result.success: truthy only if the document carries a true success field.
ResultSuccess(resp) == "success" \in BodyFields(resp)

\* downloadAndDecrypt(blobKey, apiUrl, key) up to the await of fetch.
DownloadCall(k) ==
  /\ sdk.pc \in {"idle", "settled"}
  /\ handler.pc \in {"idle", "returned"}
  /\ sdk.calls < MaxInvocations
  /\ sdk' = [pc |-> "awaitFetch", calls |-> sdk.calls + 1,
             request |-> DecryptRequest(k), answered |-> FALSE,
             outcome |-> "none", value |-> ""]
  /\ UNCHANGED <<vadvars, handler, crypto, pcm, memory, demo, app, solace>>

\* API Gateway hands the request in flight to the Lambda.
GatewayInvoke ==
  /\ sdk.pc = "awaitFetch"
  /\ handler.invocations < sdk.calls
  /\ Invoke(sdk.request)

\* fetch resolves with the Lambda's response: the rest of the try block and
\* the catch, which wraps every error in a SolaceSDKError.
FetchResolved ==
  /\ sdk.pc = "awaitFetch"
  /\ handler.pc = "returned"
  /\ handler.invocations = sdk.calls
  /\ LET resp == handler.response
     IN sdk' =
          IF ~ResponseOk(resp) \/ ~ResultSuccess(resp)
            THEN [sdk EXCEPT !.pc = "settled", !.answered = TRUE,
                             !.outcome = "DOWNLOAD_ERROR"]
            ELSE [sdk EXCEPT !.pc = "settled", !.answered = TRUE,
                             !.outcome = "resolved", !.value = resp.value]
  /\ UNCHANGED <<vadvars, handler, crypto, pcm, memory, demo, app, solace>>

\* fetch rejects: the request or the response is lost on the network.
FetchRejected ==
  /\ sdk.pc = "awaitFetch"
  /\ sdk' = [sdk EXCEPT !.pc = "settled", !.outcome = "DOWNLOAD_ERROR"]
  /\ UNCHANGED <<vadvars, handler, crypto, pcm, memory, demo, app, solace>>

NextDownload ==
  \/ \E k \in Keys : DownloadCall(k)
  \/ GatewayInvoke
  \/ \E outcome \in Blobs \cup S3Errors : S3Resolved(outcome)
  \/ \E outcome \in {"ok"} \cup KMSErrors : KMSResolved(outcome)
  \/ FetchResolved
  \/ FetchRejected

SpecDownload == Init /\ [][NextDownload]_vars

\* ------------------------------------------- the caller of CryptoManager
\* The caller encrypts d under a key it holds, as encryptBlob does under its
\* own key.
EncryptWithKey ==
  /\ crypto.pc = "ready"
  /\ crypto' = [crypto EXCEPT !.pc = "encrypted", !.usedKey = crypto.k,
                              !.blob = EncryptUnder(crypto.d, crypto.k, crypto.iv)]
  /\ UNCHANGED <<vadvars, handler, sdk, pcm, memory, demo, app, solace>>

\* encryptBlob(data): generates a key of its own, encrypts under it and
\* returns {iv, ciphertext, tag}; keyBuffer is dropped.
EncryptBlob ==
  /\ crypto.pc = "ready"
  /\ crypto.nextKey <= MaxKeys
  /\ crypto' = [crypto EXCEPT !.pc = "encrypted", !.viaPublic = TRUE,
                              !.usedKey = crypto.nextKey,
                              !.nextKey = crypto.nextKey + 1,
                              !.blob = EncryptUnder(crypto.d, crypto.nextKey,
                                                    crypto.iv)]
  /\ UNCHANGED <<vadvars, handler, sdk, pcm, memory, demo, app, solace>>

\* generateKey(), called by the caller: a key no one had before.
GenerateKey ==
  /\ crypto.nextKey <= MaxKeys
  /\ crypto' = [crypto EXCEPT !.callerKeys = @ \cup {crypto.nextKey},
                              !.nextKey = crypto.nextKey + 1]
  /\ UNCHANGED <<vadvars, handler, sdk, pcm, memory, demo, app, solace>>

\* decryptBlob(blob, key) with a key the caller holds.
DecryptBlobCall(k) ==
  /\ crypto.pc = "encrypted"
  /\ k \in crypto.callerKeys
  /\ crypto' = [crypto EXCEPT !.pc = "decrypted", !.decKey = k,
                              !.out = decryptBlob(crypto.blob, k)]
  /\ UNCHANGED <<vadvars, handler, sdk, pcm, memory, demo, app, solace>>

NextCrypto ==
  \/ EncryptWithKey
  \/ EncryptBlob
  \/ GenerateKey
  \/ \E k \in 1..MaxKeys : DecryptBlobCall(k)

SpecCrypto == InitCrypto /\ [][NextCrypto]_vars

\* processAudioFrame converts the analyser's data.
ConvertToPCM ==
  /\ pcm.pc = "ready"
  /\ pcm' = [pcm EXCEPT !.pc = "converted", !.output = convertToPCM(pcm.input)]
  /\ UNCHANGED <<vadvars, handler, sdk, crypto, memory, demo, app, solace>>

NextPcm == ConvertToPCM

SpecPcm == InitPcm /\ [][NextPcm]_vars

\* ------------------------------------------------ the user of useMemory
SaveTranscript(t) ==
  /\ Len(memory.saved) < MaxSaves
  /\ memory' = [saveTranscript(memory, t, Len(memory.saved) + 1)
                  EXCEPT !.saved = Append(memory.saved, t), !.op = "save"]
  /\ UNCHANGED <<vadvars, handler, sdk, crypto, pcm, demo, app, solace>>

\* clearTranscripts(): localStorage.removeItem('solace_transcripts').
ClearTranscripts ==
  /\ memory' = [MemoryEmpty EXCEPT !.op = "clear"]
  /\ UNCHANGED <<vadvars, handler, sdk, crypto, pcm, demo, app, solace>>

NextMemory ==
  \/ \E t \in Texts : SaveTranscript(t)
  \/ ClearTranscripts

SpecMemory == Init /\ [][NextMemory]_vars

\* A sequence of the manager has ended, or a stopRecording() call made
\* after its start has completed.
Released == \E g \in Gens : pc[g] = "done" \/ stopDone[g]

\* SolaceClientSDK.recordVoice(): the caller asks the released manager for
\* another sequence; nothing runs until that sequence is first pulled.
CallAgain ==
  /\ constructed
  /\ Released
  /\ runs + 1 \in Gens
  /\ runs' = runs + 1
  /\ lastOp' = "recordVoice"
  /\ UNCHANGED <<constructed, config, fields, genvars, stopStatus, histvars,
                 loopStart, frameTs, hostvars>>

\* A manager with the default configuration on which the caller records
\* more than once, with one external stopRecording() call.
NextReuse ==
  \/ Construct(DefaultConfig)
  \/ \E r \in BOOLEAN : StopBegin(1, r)
  \/ StopResume(1)
  \/ \E g \in Gens : GenStart(g)
  \/ \E g \in Gens, ok \in BOOLEAN, r \in BOOLEAN : ImportResolved(g, ok, r)
  \/ \E g \in Gens, a \in AcquireOutcomes, o \in FrameOutcomes, r \in BOOLEAN :
       GUMResolved(g, a, o, r)
  \/ \E g \in Gens : FrameResume(g)
  \/ \E g \in Gens : ConsumerNext(g)
  \/ \E g \in Gens, r \in BOOLEAN : ConsumerReturn(g, r)
  \/ \E g \in Gens, o \in FrameOutcomes, r \in BOOLEAN : TimerFired(g, o, r)
  \/ \E g \in Gens : FinallyResume(g)
  \/ CallAgain

SpecReuse == Init /\ [][NextReuse]_vars

\* recordVoice() called again while the first sequence may still be running.
CallConcurrently ==
  /\ constructed
  /\ runs + 1 \in Gens
  /\ runs' = runs + 1
  /\ lastOp' = "recordVoice"
  /\ UNCHANGED <<constructed, config, fields, genvars, stopStatus, histvars,
                 loopStart, frameTs, hostvars>>

\* Two sequences of one manager with the default configuration, pulled in
\* any interleaving, without external stopRecording() calls.
NextConcurrent ==
  \/ Construct(DefaultConfig)
  \/ \E g \in Gens : GenStart(g)
  \/ \E g \in Gens, ok \in BOOLEAN, r \in BOOLEAN : ImportResolved(g, ok, r)
  \/ \E g \in Gens, a \in AcquireOutcomes, o \in FrameOutcomes, r \in BOOLEAN :
       GUMResolved(g, a, o, r)
  \/ \E g \in Gens : FrameResume(g)
  \/ \E g \in Gens : ConsumerNext(g)
  \/ \E g \in Gens, r \in BOOLEAN : ConsumerReturn(g, r)
  \/ \E g \in Gens, o \in FrameOutcomes, r \in BOOLEAN : TimerFired(g, o, r)
  \/ \E g \in Gens : FinallyResume(g)
  \/ CallConcurrently

SpecConcurrent == Init /\ [][NextConcurrent]_vars

\* ------------------------------------------------------- the SDK demo
\* stopAndUpload() up to its first await: it needs an sdk and a sequence in
\* recordingRef, sets the component's isRecording state to false and drops
\* the reference; it calls nothing on the sequence or on the manager.
StopAndUpload ==
  /\ constructed
  /\ pc[1] # "notStarted"
  /\ demo.pc = "idle"
  /\ NoJobQueued
  /\ demo' = [demo EXCEPT !.pc = "uploading", !.uiRecording = FALSE,
                          !.pressedWhileRecording = isRecording]
  /\ UNCHANGED <<vadvars, handler, sdk, crypto, pcm, memory, app, solace>>

\* sdk.encrypt and sdk.uploadBlob settle: setResult or setError, and
\* setIsProcessing(false) in the finally block.
UploadSettled(ok) ==
  /\ demo.pc = "uploading"
  /\ NoJobQueued
  /\ demo' = [demo EXCEPT !.pc = "done",
                          !.outcome = IF ok THEN "uploaded" ELSE "Upload failed"]
  /\ UNCHANGED <<vadvars, handler, sdk, crypto, pcm, memory, app, solace>>

\* startRecording() of the demo: for await over sdk.recordVoice(), with no
\* break in the loop, and the 'Stop & Upload' button.
NextDemo ==
  \/ Construct(DefaultConfig)
  \/ \E g \in Gens : GenStart(g)
  \/ \E g \in Gens, ok \in BOOLEAN, r \in BOOLEAN : ImportResolved(g, ok, r)
  \/ \E g \in Gens, a \in AcquireOutcomes, o \in FrameOutcomes, r \in BOOLEAN :
       GUMResolved(g, a, o, r)
  \/ \E g \in Gens : FrameResume(g)
  \/ \E g \in Gens : ConsumerNext(g)
  \/ \E g \in Gens, o \in FrameOutcomes, r \in BOOLEAN : TimerFired(g, o, r)
  \/ \E g \in Gens : FinallyResume(g)
  \/ StopAndUpload
  \/ \E ok \in BOOLEAN : UploadSettled(ok)

SpecDemo == Init /\ [][NextDemo]_vars

\* ------------------------------------------------- the voice companion
Responses == {"r1", "fallback"}

\* if (!transcript), if (!response)
MissingNever(text) == FALSE

Missing(text) == text = "null"

\* The catch and finally blocks of handleAudioProcessing.
Failed(a, message) ==
  [a EXCEPT !.pc = "idle", !.error = message, !.isProcessing = FALSE]

Message(sender, text, run) == [sender |-> sender, text |-> text, run |-> run]

\* handleAudioProcessing() with an audio blob, up to the await of transcribe.
StartProcessing ==
  /\ app.pc = "idle"
  /\ Len(app.runLog) < MaxProcessed
  /\ app' = [app EXCEPT !.pc = "awaitTranscribe", !.isProcessing = TRUE,
                        !.error = "null", !.transcript = "null",
                        !.response = "null",
                        !.runLog = Append(@, [transcript |-> "pending",
                                              saved |-> FALSE])]
  /\ UNCHANGED <<vadvars, handler, sdk, crypto, pcm, memory, demo, solace>>

\* transcribe settles with a text or null (it catches its own errors); a
\* text is saved by saveTranscript, which runs up to its return.
Transcribed(t) ==
  /\ app.pc = "awaitTranscribe"
  /\ LET run == Len(app.runLog)
     IN IF Missing(t)
          THEN /\ app' = [Failed(app, "Failed to transcribe audio")
                           EXCEPT !.runLog[run].transcript = t]
               /\ UNCHANGED memory
          ELSE /\ app' = [app EXCEPT !.pc = "awaitSave", !.transcript = t,
                                     !.runLog[run] = [transcript |-> t,
                                                      saved |-> TRUE]]
               /\ memory' = [saveTranscript(memory, t, Len(memory.saved) + 1)
                               EXCEPT !.saved = Append(memory.saved, t),
                                      !.op = "save"]
  /\ UNCHANGED <<vadvars, handler, sdk, crypto, pcm, demo, solace>>

\* await saveTranscript(..) resumes: the user message is appended and
\* sendMessage is called with the transcripts in memory.
SaveReturned ==
  /\ app.pc = "awaitSave"
  /\ app' = [app EXCEPT !.pc = "awaitChat",
                        !.messages = Append(@, Message("user", app.transcript,
                                                       Len(app.runLog)))]
  /\ UNCHANGED <<vadvars, handler, sdk, crypto, pcm, memory, demo, solace>>

\* sendMessage settles with a response, a fallback or null (it catches its
\* own errors).
ChatAnswered(r) ==
  /\ app.pc = "awaitChat"
  /\ app' = IF Missing(r)
              THEN Failed(app, "Failed to get chatbot response")
              ELSE [app EXCEPT !.pc = "awaitTTS", !.response = r,
                               !.messages = Append(@, Message("assistant", r,
                                                              Len(app.runLog)))]
  /\ UNCHANGED <<vadvars, handler, sdk, crypto, pcm, memory, demo, solace>>

\* synthesize settles with a URL, with null, or throws.
Synthesized(outcome) ==
  /\ app.pc = "awaitTTS"
  /\ app' = IF outcome = "throws"
              THEN Failed(app, "An error occurred")
              ELSE [app EXCEPT !.pc = "idle", !.isProcessing = FALSE]
  /\ UNCHANGED <<vadvars, handler, sdk, crypto, pcm, memory, demo, solace>>

\* The steps by which the promises handleAudioProcessing awaits settle.
AppSettles ==
  \/ \E t \in Texts \cup {"null"} : Transcribed(t)
  \/ SaveReturned
  \/ \E r \in Responses \cup {"null"} : ChatAnswered(r)
  \/ \E outcome \in {"url", "null", "throws"} : Synthesized(outcome)

NextApp ==
  \/ StartProcessing
  \/ \E t \in Texts \cup {"null"} : Transcribed(t)
  \/ SaveReturned
  \/ \E r \in Responses \cup {"null"} : ChatAnswered(r)
  \/ \E outcome \in {"url", "null", "throws"} : Synthesized(outcome)

\* Every promise the handler awaits settles.
SpecApp == Init /\ [][NextApp]_vars /\ WF_vars(AppSettles)

\* --------------------------------------------------- SolaceClientSDK
\* The constructor's config: the defaults include a vadConfig, which the
\* caller's config may override, and no apiUrl.
InitSdk ==
  /\ InitBase
  /\ crypto = CryptoReady(<<>>, 1, [i \in 1..IvLength |-> i])
  /\ pcm = PcmReady(<<>>)
  /\ memory = MemoryEmpty
  /\ demo = DemoIdle
  /\ app = AppIdle
  /\ solace \in {NewSdk(cfg) : cfg \in SdkConfigs}

\* if (this.config.apiUrl)
ApiWantedAlways(cfg) == TRUE

ApiWanted(cfg) == cfg.apiUrl

\* initialize(): creates the managers the configuration asks for.
Initialize ==
  /\ solace' = [solace EXCEPT
       !.vadManager = IF solace.config.vadConfig THEN TRUE ELSE @,
       !.apiManager = IF ApiWanted(solace.config) THEN TRUE ELSE @,
       !.initialized = TRUE,
       !.initWithUrl = @ \/ solace.config.apiUrl,
       !.op = "initialize", !.outcome = "none"]
  /\ UNCHANGED <<vadvars, handler, sdk, crypto, pcm, memory, demo, app>>

\* updateConfig(newConfig): this.config = {...this.config, ...newConfig}.
UpdateConfig(cfg) ==
  /\ solace' = [solace EXCEPT !.config = cfg, !.op = "updateConfig",
                              !.outcome = "none"]
  /\ UNCHANGED <<vadvars, handler, sdk, crypto, pcm, memory, demo, app>>

\* The first pull of recordVoice(): throws without a vadManager, else
\* delegates to recordAndDetectVoice, which acquires the audio source.
RecordVoice ==
  /\ solace.acquisitions < MaxCalls
  /\ solace' =
       IF ~solace.vadManager
         THEN [solace EXCEPT !.op = "recordVoice",
                             !.outcome = "VAD not initialized"]
         ELSE [solace EXCEPT !.op = "recordVoice", !.outcome = "delegated",
                             !.acquisitions = @ + 1]
  /\ UNCHANGED <<vadvars, handler, sdk, crypto, pcm, memory, demo, app>>

\* uploadBlob(blob) / downloadAndDecrypt(blobKey, key): reject without an
\* apiManager, else delegate to it, which calls fetch.
ApiCall(name) ==
  /\ solace.networkCalls < MaxCalls
  /\ solace' =
       IF ~solace.apiManager
         THEN [solace EXCEPT !.op = name, !.outcome = "API not initialized"]
         ELSE [solace EXCEPT !.op = name, !.outcome = "delegated",
                             !.networkCalls = @ + 1]
  /\ UNCHANGED <<vadvars, handler, sdk, crypto, pcm, memory, demo, app>>

NextSdk ==
  \/ Initialize
  \/ \E cfg \in SdkConfigs : UpdateConfig(cfg)
  \/ RecordVoice
  \/ \E name \in {"uploadBlob", "downloadAndDecrypt"} : ApiCall(name)

SpecSdk == InitSdk /\ [][NextSdk]_vars

\* getRecordingState(): this.startTime || Date.now() is the clock when the
\* field is unset (0).
getRecordingState ==
  [isRecording |-> isRecording,
   duration |-> IF isRecording
                  THEN now - (IF startTime # 0 THEN startTime ELSE now)
                  ELSE 0]

TypeOK ==
  /\ mediaStream \in Gens \cup {Null}
  /\ audioContext \in Gens \cup {Null}
  /\ \A g \in Gens : pc[g] \in {"notStarted", "awaitImport", "awaitGUM",
       "awaitFrame", "yielded", "timer", "finallyClosing", "done"}
  /\ \A g \in Gens : result[g] \in {"none", "done", "SolaceSDKError",
       "InvalidStateError"}
  /\ \A c \in StopCalls : stopStatus[c] \in {"idle", "closing", "done", "raised"}

\* ================================================================ claims

\* C1: on every exit path of the sequence the audio source is released
\* before the sequence finishes: once the generator is done, the track of
\* the stream it obtained has been stopped, the AudioContext it created has
\* been closed, and mediaStream, audioContext and analyser are null.
ReleasedOnEveryExit ==
  \A g \in Gens :
    (pc[g] = "done" /\ streamObtained[g]) =>
      /\ trackStops[g] >= 1
      /\ ctxCreated[g] => ctxCloses[g] >= 1
      /\ mediaStream = Null
      /\ audioContext = Null
      /\ ~analyser

\* C2: release happens exactly once per acquisition: no track is stopped
\* twice and no AudioContext is closed twice, whatever the number and the
\* interleaving of stopRecording() calls, and a finished sequence has
\* released what it acquired once.
ReleasedExactlyOnce ==
  \A g \in Gens :
    /\ trackStops[g] <= 1
    /\ ctxCloses[g] <= 1
    /\ (pc[g] = "done" /\ streamObtained[g]) => trackStops[g] = 1
    /\ (pc[g] = "done" /\ ctxCreated[g]) => ctxCloses[g] = 1

\* C3: a stop() called while the generator is suspended in acquisition
\* leaves the pipeline Released once acquisition has resolved: it is not
\* recording, the sequence is ending or has ended, and no frame was yielded.
StopWhileAcquiringReleases ==
  \A g \in Gens :
    (stopAt[g] \cap {"awaitImport", "awaitGUM"} # {} /\ ~Acquiring(g)) =>
      /\ ~isRecording
      /\ pc[g] \in {"finallyClosing", "done"}
      /\ received[g] = <<>>

\* C4: no frame is emitted after Released: once a stopRecording() call made
\* after the first pull has completed, the consumer is handed no further
\* frame.
NoFrameAfterReleased ==
  [][\A g \in Gens : stopDone[g] => received'[g] = received[g]]_vars

\* C5: a stop() called while the pull is suspended in the inter-frame timer
\* ends that pull as end-of-sequence: the generator waits for that one timer
\* at most, yields no further frame, and the pending next() resolves done.
StopInTimerEndsPull ==
  \A g \in Gens :
    "timer" \in stopAt[g] =>
      /\ pc[g] \in {"timer", "finallyClosing", "done"}
      /\ pc[g] = "done" => result[g] = "done"

\* C6: stop() is idempotent: a stopRecording() call made right after a
\* stopRecording() call completed, or on a pipeline that never started,
\* completes without raising, stops no track, closes no AudioContext and
\* leaves isRecording false and every handle null.
NeverStarted == \A g \in Gens : pc[g] = "notStarted"

AcquisitionFailureReleases ==
  \A g \in Gens :
    acqFailure[g] # "none" =>
      /\ ~isRecording /\ ~everRecording
      /\ received[g] = <<>>
      /\ pc[g] \in {"finallyClosing", "done"}
      /\ pc[g] = "done" => result[g] = "SolaceSDKError"
      /\ streamObtained[g] => (trackStops[g] >= 1 /\ mediaStream = Null)

\* The analyser could not be created after stream and context were obtained,
\* and the first pull has rejected.
AcquisitionFailureWitness ==
  /\ acqFailure[1] = "createAnalyser"
  /\ pc[1] = "done" /\ result[1] = "SolaceSDKError"
  /\ trackStops[1] = 1 /\ ctxCloses[1] = 1

\* C8: a classifier failure on one frame is not fatal: the frames handed to
\* the consumer are exactly the frames read and classified without failure,
\* in their original order, and the step on which the classifier throws
\* leaves the pipeline recording with no error for the consumer.
Handled(g) ==
  IF pc[g] = "awaitFrame" /\ pendingFrame[g] # NoFrame
    THEN Len(frameLog[g]) - 1 ELSE Len(frameLog[g])

OkFrames(g) ==
  LET IsOk(k) == frameLog[g][k] = "ok"
  IN SelectSeq([k \in 1..Handled(g) |-> k], IsOk)

ClassifierFailureDropsFrame ==
  /\ [](\A g \in Gens : received[g] = OkFrames(g))
  /\ [][\A g \in Gens :
         (/\ Len(frameLog'[g]) = Len(frameLog[g]) + 1
          /\ frameLog'[g][Len(frameLog'[g])] = "classifierThrows") =>
           /\ isRecording'
           /\ pc'[g] = "awaitFrame" /\ pendingFrame'[g] = NoFrame
           /\ result'[g] = "none"
           /\ received'[g] = received[g]]_vars

\* The classifier threw on the second of three frames; the first and the
\* third reached the consumer.
ClassifierFailureWitness ==
  /\ frameLog[1] = <<"ok", "classifierThrows", "ok">>
  /\ received[1] = <<1, 3>>
  /\ result[1] = "none"

\* C9: a read failure on the audio source while Running is fatal: the
\* sequence ends, and it ends by rejecting the pull, not as a normal end.
ReadFailureIsFatal ==
  \A g \in Gens :
    (\E k \in 1..Len(frameLog[g]) : frameLog[g][k] = "readThrows") =>
      /\ pc[g] \in {"finallyClosing", "done"}
      /\ pc[g] = "done" => result[g] \notin {"none", "done"}

\* C10: configuration is validated at construction: no VADManager exists
\* with a configuration outside the surface, and none acquires a classifier,
\* a microphone stream or an AudioContext.
ConfigValidatedAtConstruction ==
  ~ValidConfig(config) =>
    /\ ~constructed
    /\ ~vad /\ mediaStream = Null /\ audioContext = Null

\* C11: the timestamps of the frames of one run are non-decreasing, and
\* the frames are handed over in processing order, none twice.
Timestamps(g) ==
  [i \in 1..Len(received[g]) |-> frameTs[g][received[g][i]]]

TimestampsNonDecreasing ==
  \A g \in Gens :
    \A i \in 1..Len(received[g]) : \A j \in 1..Len(received[g]) :
      i < j => /\ received[g][i] < received[g][j]
               /\ Timestamps(g)[i] <= Timestamps(g)[j]

\* Three frames were handed over while the clock advanced between them.
TimestampsWitness ==
  /\ Len(received[1]) = 3
  /\ Timestamps(1)[1] = 0
  /\ Timestamps(1)[2] = Timestamps(1)[1]
  /\ Timestamps(1)[3] > Timestamps(1)[2]

\* C12: every emitted frame has exactly sampleRate * frameDuration / 1000
\* samples for the pipeline's (valid) configuration.
FrameLengthSamples(c) == (c.sampleRate * c.frameDuration) \div 1000

FrameHasConfiguredLength ==
  \A g \in Gens :
    (ValidConfig(config) /\ received[g] # <<>>) =>
      EmittedFrameSamples = FrameLengthSamples(config)

\* C13: the frames emitted depend only on the total number of samples
\* delivered, not on how they were chunked: after N samples the sequence has
\* carved floor(N / frameLengthSamples) frames and holds the rest as residue.
FramesCarved(g) == Len(frameLog[g])

FramesDependOnlyOnSamples ==
  \A g \in Gens :
    streamObtained[g] =>
      FramesCarved(g) = delivered \div FrameLengthSamples(config)

\* C15: getRecordingState() returns {isRecording: false, duration: 0} on a
\* pipeline that never started, during acquisition, and at any time after a
\* stopRecording() call made on the started pipeline has completed.
NotRecordingState == [isRecording |-> FALSE, duration |-> 0]

NotRecordingOutsideRunning ==
  \A g \in Gens :
    (g <= runs /\ (pc[g] = "notStarted" \/ Acquiring(g) \/ stopDone[g])) =>
      getRecordingState = NotRecordingState

\* C16: while the pipeline is Running, getRecordingState() reports as
\* duration the clock time elapsed since the pipeline entered Running.
Running(g) ==
  /\ isRecording
  /\ pc[g] \in {"awaitFrame", "yielded", "timer"}

DurationIsElapsed ==
  \A g \in Gens :
    Running(g) => getRecordingState.duration = now - loopStart[g]

\* C14: a released pipeline is not reusable: a sequence the caller asks of
\* a manager that has reached Released (a sequence of it ended, or a
\* stopRecording() call made after its start completed) never obtains a
\* stream and is never Running.
CalledOnReleased(g) == g > 1 /\ g <= runs

ReleasedIsTerminal ==
  \A g \in Gens :
    CalledOnReleased(g) => ~streamObtained[g] /\ ~Running(g)

\* C17: a reader never observes an intermediate state: whenever isRecording
\* is true, mediaStream, audioContext and analyser are all non-null, and
\* once a stop has completed (no stopRecording() call being in progress) a
\* pipeline that is not recording holds none of them.
StopInProgress ==
  \/ \E c \in StopCalls : stopStatus[c] = "closing"
  \/ \E g \in Gens : pc[g] = "finallyClosing"

SourceHeld == mediaStream # Null /\ audioContext # Null /\ analyser

SourceDropped == mediaStream = Null /\ audioContext = Null /\ ~analyser

ReaderSeesNoIntermediateState ==
  /\ isRecording => SourceHeld
  /\ (~isRecording /\ Released /\ ~StopInProgress) => SourceDropped

\* C18: a request whose JSON body has no blobKey is answered with status 400
\* and body {"error": "Missing blobKey"}, and no S3 getObject and no KMS
\* decrypt call is made for it.
JsonBodyWithoutBlobKey(e) ==
  e.httpMethod = "POST" /\ e.body \in {"jsonNull", "objectWithoutBlobKey"}

MissingBlobKeyRejected ==
  (handler.pc = "returned" /\ JsonBodyWithoutBlobKey(handler.event)) =>
    /\ handler.response.statusCode = 400
    /\ handler.response.kind = "error"
    /\ handler.response.value = "Missing blobKey"
    /\ handler.s3Calls = <<>>
    /\ handler.kmsCalls = <<>>

\* C19: the handler never throws and works in a fixed order: it returns 200
\* with {plaintext} only if the S3 fetch of the requested key succeeded and
\* the blob it fetched was then decrypted by KMS; KMS is never called unless
\* the S3 fetch succeeded; and every failure (of parsing the body, of S3, of
\* KMS) is answered with status 500 and an error field.
HandlerSettled == handler.pc \in {"idle", "returned"}

HandlerFailsGracefully ==
  /\ (handler.invocations > 0 /\ HandlerSettled) =>
       handler.response.statusCode \in {200, 400, 500}
  /\ (handler.pc = "returned" /\ handler.response.kind = "plaintext") =>
       /\ handler.response.statusCode = 200
       /\ handler.s3Calls = <<handler.event.blobKey>>
       /\ handler.fetched \in Blobs
       /\ handler.kmsCalls = <<handler.fetched>>
       /\ handler.response.value = Plaintext(handler.fetched)
       /\ handler.failure = "none"
  /\ handler.kmsCalls # <<>> =>
       handler.fetched \in Blobs /\ handler.s3Calls # <<>>
  /\ (handler.pc = "returned" /\ handler.failure = "s3") =>
       handler.kmsCalls = <<>>
  /\ (handler.pc = "returned" /\ handler.failure # "none") =>
       /\ handler.response.statusCode = 500
       /\ handler.response.kind = "error"
       /\ handler.response.value # ""

HandlerSuccessWitness ==
  /\ handler.pc = "returned"
  /\ handler.invocations = 2
  /\ handler.response.statusCode = 200
  /\ handler.response.value = Plaintext("b2")
  /\ handler.kmsCalls = <<"b2">>

\* C20: every response the handler returns, the OPTIONS preflight 200, the
\* 400 for a missing blobKey, the success 200 and the failure 500, carries
\* the three CORS headers.
EveryResponseHasCors ==
  handler.pc = "returned" => CorsHeaders \subseteq handler.response.headers

SuccessResponseWitness ==
  /\ handler.pc = "returned"
  /\ handler.response.kind = "plaintext"
  /\ "Content-Type" \in handler.response.headers
  /\ Cardinality(handler.response.headers) = 4

\* C21: whenever the decrypt endpoint answers the request with the Lambda's
\* success response (200, {plaintext}), downloadAndDecrypt resolves with
\* that plaintext.
AnsweredWithSuccess ==
  /\ sdk.pc = "settled"
  /\ sdk.answered
  /\ handler.pc = "returned"
  /\ handler.invocations = sdk.calls
  /\ handler.response.statusCode = 200
  /\ handler.response.kind = "plaintext"

DownloadResolvesWithPlaintext ==
  AnsweredWithSuccess =>
    sdk.outcome = "resolved" /\ sdk.value = handler.response.value

\* C22: encrypt/decrypt round trip with the same key: decryptBlob of the
\* base64-encoded iv, ciphertext and tag of d encrypted under k, with k,
\* returns exactly d.
RoundTripSameKey ==
  (crypto.pc = "decrypted" /\ crypto.decKey = crypto.usedKey) =>
    crypto.out = [ok |-> TRUE, text |-> crypto.d]

\* C23: the blob encryptBlob(d) returns can be turned back into d by
\* decryptBlob with a key the caller holds.
PublicBlobDecryptable ==
  (crypto.pc \in {"encrypted", "decrypted"} /\ crypto.viaPublic) =>
    \E k \in crypto.callerKeys :
      decryptBlob(crypto.blob, k) = [ok |-> TRUE, text |-> crypto.d]

\* C24: for every input byte b, convertToPCM yields
\* round((b - 128) / 128 * 32767), a value within -32768..32767, and its
\* output is as long as its input.
PcmWithinInt16 ==
  pcm.pc = "converted" =>
    /\ Len(pcm.output) = Len(pcm.input)
    /\ \A i \in 1..Len(pcm.input) :
         /\ pcm.output[i] = MathRound((pcm.input[i] - 128) * 32767, 128)
         /\ pcm.output[i] >= -32768
         /\ pcm.output[i] <= 32767

PcmWitness ==
  /\ pcm.pc = "converted"
  /\ Len(pcm.input) = 3
  /\ pcm.input[1] = 255
  /\ pcm.output[1] = 32511
  /\ pcm.input[2] = 0
  /\ pcm.output[2] = -32767
  /\ pcm.output[3] = -32511

\* C25: after n saveTranscript calls the stored list has min(n, 3) entries
\* and getTranscripts() returns the last min(n, 3) saved texts in the order
\* they were saved; after clearTranscripts() it returns the empty list.
MinOf(a, b) == IF a < b THEN a ELSE b

KeepsLastThree ==
  LET n == Len(memory.saved)
      kept == MinOf(n, 3)
  IN /\ Len(StoredTranscripts(memory)) = kept
     /\ getTranscripts(memory) = [i \in 1..kept |-> memory.saved[n - kept + i]]
     /\ memory.op = "clear" => getTranscripts(memory) = <<>>

KeepsLastThreeWitness ==
  /\ memory.saved = <<"t1", "t2", "t2", "t1", "t1">>
  /\ getTranscripts(memory) = <<"t2", "t1", "t1">>

\* C26: while the pipeline reports Running it can produce frames: whenever
\* isRecording is true, the classifier (vad) and the analyser are non-null.
RunningCanProduceFrames == isRecording => vad /\ analyser

\* C27: no audio source handle is lost: once every sequence started on the
\* manager has ended, the track of every MediaStream obtained has been
\* stopped and every AudioContext created has been closed.
AllEnded == \A g \in Gens : g <= runs => pc[g] = "done"

NoHandleLost ==
  AllEnded =>
    \A g \in Gens :
      /\ streamObtained[g] => trackStops[g] >= 1
      /\ ctxCreated[g] => ctxCloses[g] >= 1

\* C28: pressing 'Stop & Upload' during an active recording stops it: once
\* stopAndUpload has run, the pipeline is not recording, the microphone is
\* released and the consumer of the sequence is handed no further frame.
StopAndUploadStops ==
  [][(demo.pc = "done" /\ demo.pressedWhileRecording) =>
       /\ ~isRecording' /\ mediaStream' = Null
       /\ received'[1] = received[1]]_vars

\* C29: handleAudioProcessing always ends its busy state and keeps message
\* order: isProcessing is eventually false again; a user message carries
\* the non-null transcript of its run, which was saved before; an assistant
\* message follows the user message of its run; and a run whose
\* transcription failed appends no message and ends with error set.
SavedUpTo(run) == Cardinality({r \in 1..run : app.runLog[r].saved})

MessagesInOrder ==
  /\ app.pc = "idle" => ~app.isProcessing
  /\ \A i \in 1..Len(app.messages) :
       LET m == app.messages[i]
       IN /\ m.sender = "user" =>
               /\ m.text # "null"
               /\ app.runLog[m.run] = [transcript |-> m.text, saved |-> TRUE]
               /\ memory.saved[SavedUpTo(m.run)] = m.text
          /\ m.sender = "assistant" =>
               \E j \in 1..(i - 1) :
                 app.messages[j].sender = "user" /\ app.messages[j].run = m.run
  /\ \A r \in 1..Len(app.runLog) :
       app.runLog[r].transcript = "null" =>
         /\ \A i \in 1..Len(app.messages) : app.messages[i].run # r
         /\ (r = Len(app.runLog) /\ app.pc = "idle") =>
              app.error = "Failed to transcribe audio"

GuardedByInitialization ==
  /\ ~solace.initialized =>
       /\ solace.acquisitions = 0
       /\ solace.op = "recordVoice" => solace.outcome = "VAD not initialized"
  /\ ~solace.initWithUrl =>
       /\ solace.networkCalls = 0
       /\ solace.op \in {"uploadBlob", "downloadAndDecrypt"} =>
            solace.outcome = "API not initialized"

UpdateConfigKeepsManagers ==
  [][solace'.op = "updateConfig" =>
       /\ solace'.vadManager = solace.vadManager
       /\ solace'.apiManager = solace.apiManager]_vars

SdkGuarded == []GuardedByInitialization /\ UpdateConfigKeepsManagers

SdkGuardedWitness ==
  /\ solace.initialized
  /\ solace.config.apiUrl
  /\ solace.op = "uploadBlob"
  /\ solace.outcome = "API not initialized"
  /\ solace.networkCalls = 0
  /\ solace.acquisitions = 1

====
